---- MODULE Spec2Model ----
(***************************************************************************)
(* ZOI Trade Advisory backend (zoi_complete_system.py): the Dyad research  *)
(* adapter, the risk calculator and the HTTP handlers that compose them    *)
(* over the database.                                                      *)
(*                                                                         *)
(* Scores are kept in hundredths (score 85.0 is 8500): every base score    *)
(* and every deduction is a whole number and the weights are multiples of  *)
(* 0.05, so the weighted sum times 100 is an exact integer.                *)
(***************************************************************************)
EXTENDS Integers, Sequences, FiniteSets, TLC

\* ------------------------------------------------------------------ bounds
\* alert counts tried by the scoring specifications: -NegAlerts..MaxAlerts*
NegAlerts == 1
MaxAlerts6 == 5
MaxAlerts12 == 11
\* one count far beyond every cap
LargeCount == 1000000
\* the longest response text, in tokens, tried by the adapter specification
MaxTextLen == 5
\* the alert counts a calculate_risk request carries: 0..MaxRequest6 and, for the
\* 12-month window, 0 and RequestCount12
MaxRequest6 == 1
RequestCount12 == 6
\* the handler calls allowed in one behaviour: saved assessments, Dyad requests
MaxAssessments == 2
MaxRequests == 2

\* ------------------------------------------------ NCM risk profiles (static)
NoProfileNcm == "99999999"

NCM_RISK_PROFILES ==
  [ n \in {"08055000", "12019000", "09011110", "02023000", "20091100", "04090000"} |->
      CASE n = "08055000" -> [historical_rejections |-> 12, sanitario_base |-> 75,
                              fitossanitario_base |-> 68, logistico_base |-> 85,
                              documental_base |-> 72]
        [] n = "12019000" -> [historical_rejections |-> 5, sanitario_base |-> 88,
                              fitossanitario_base |-> 82, logistico_base |-> 92,
                              documental_base |-> 85]
        [] n = "09011110" -> [historical_rejections |-> 2, sanitario_base |-> 92,
                              fitossanitario_base |-> 90, logistico_base |-> 88,
                              documental_base |-> 95]
        [] n = "02023000" -> [historical_rejections |-> 18, sanitario_base |-> 72,
                              fitossanitario_base |-> 78, logistico_base |-> 65,
                              documental_base |-> 68]
        [] n = "20091100" -> [historical_rejections |-> 8, sanitario_base |-> 80,
                              fitossanitario_base |-> 75, logistico_base |-> 88,
                              documental_base |-> 82]
        [] OTHER          -> [historical_rejections |-> 6, sanitario_base |-> 85,
                              fitossanitario_base |-> 88, logistico_base |-> 90,
                              documental_base |-> 82] ]

\* mutant of DefaultProfile: the default taken from the least favourable profile
DefaultProfileOfBeef ==
  [historical_rejections |-> 18, sanitario_base |-> 72, fitossanitario_base |-> 78,
   logistico_base |-> 65, documental_base |-> 68]

\* the default of NCM_RISK_PROFILES.get(product.ncm_code, {...}) in calculate
DefaultProfile ==
  [historical_rejections |-> 0, sanitario_base |-> 85, fitossanitario_base |-> 85,
   logistico_base |-> 85, documental_base |-> 85]

HasProfile(ncm_code) == ncm_code \in DOMAIN NCM_RISK_PROFILES

NcmCodes == DOMAIN NCM_RISK_PROFILES \cup {NoProfileNcm}

Min(a, b) == IF a <= b THEN a ELSE b

\* ------------------------------------------- EnhancedRiskCalculator.calculate
\* mutants of Deduction6m: the cap forgotten; the deduction added instead of subtracted
Deduction6mUncapped(rasff_6m) == IF rasff_6m > 0 THEN rasff_6m * 5 ELSE 0

Deduction6mSignSlip(rasff_6m) == IF rasff_6m > 0 THEN 0 - Min(rasff_6m * 5, 20) ELSE 0

\* if rasff_6m > 0: sanitario -= min(rasff_6m * 5, 20)
Deduction6m(rasff_6m) == IF rasff_6m > 0 THEN Min(rasff_6m * 5, 20) ELSE 0

\* mutant of Deduction12m: the deduction counted from the first alert, not the sixth
Deduction12mFromFirst(rasff_12m) == IF rasff_12m > 0 THEN Min(rasff_12m * 3, 15) ELSE 0

\* if rasff_12m > 5: sanitario -= min((rasff_12m - 5) * 3, 15)
Deduction12m(rasff_12m) == IF rasff_12m > 5 THEN Min((rasff_12m - 5) * 3, 15) ELSE 0

\* mutant of FinalScore: the weights of the first two components exchanged
FinalScoreSwappedWeights(sanitario, fitossanitario, logistico, documental) ==
  sanitario * 30 + fitossanitario * 35 + logistico * 20 + documental * 15

\* final_score, in hundredths
FinalScore(sanitario, fitossanitario, logistico, documental) ==
  sanitario * 35 + fitossanitario * 30 + logistico * 20 + documental * 15

\* mutant of StatusOf: the yellow tier starting at 65
StatusOfShiftedTier(final_score) ==
  IF final_score >= 8000 THEN "green"
  ELSE IF final_score >= 6500 THEN "yellow"
  ELSE "red"

\* the if/elif/else on final_score
StatusOf(final_score) ==
  IF final_score >= 8000 THEN "green"
  ELSE IF final_score >= 6000 THEN "yellow"
  ELSE "red"

\* the recommendation list, in the order the code appends
Recommendations(sanitario, fitossanitario, rasff_6m) ==
  (IF sanitario < 75 THEN << [advice |-> "sanitario", n |-> 0] >> ELSE << >>)
  \o (IF fitossanitario < 75 THEN << [advice |-> "agrotoxicos", n |-> 0] >> ELSE << >>)
  \o (IF rasff_6m > 0 THEN << [advice |-> "rasff", n |-> rasff_6m] >> ELSE << >>)

calculate(ncm_code, rasff_6m, rasff_12m) ==
  LET profile == IF HasProfile(ncm_code) THEN NCM_RISK_PROFILES[ncm_code]
                 ELSE DefaultProfile
      sanitario == profile.sanitario_base - Deduction6m(rasff_6m)
                     - Deduction12m(rasff_12m)
      fitossanitario == profile.fitossanitario_base
      logistico == profile.logistico_base
      documental == profile.documental_base
      final_score == FinalScore(sanitario, fitossanitario, logistico, documental)
  IN [ score |-> final_score,
       status |-> StatusOf(final_score),
       components |-> [Sanitario |-> sanitario, Fitossanitario |-> fitossanitario,
                       Logistico |-> logistico, Documental |-> documental],
       recommendations |-> Recommendations(sanitario, fitossanitario, rasff_6m),
       alerts |-> [rasff_6m |-> rasff_6m, rasff_12m |-> rasff_12m,
                   historical_rejections |-> profile.historical_rejections] ]

\* ----------------------------------------------------- JSON text and values
\* A response text is a sequence of lexical tokens; whitespace is not kept.  A key
\* token is a quoted name with its colon; a prose token is any run of characters
\* that is not JSON and holds no brace.
Tok(t, s, n) == [t |-> t, s |-> s, n |-> n]
LBrace == Tok("{", "", 0)
RBrace == Tok("}", "", 0)
LBracket == Tok("[", "", 0)
RBracket == Tok("]", "", 0)
Comma == Tok(",", "", 0)
Key(name) == Tok("key", name, 0)
NumTok(n) == Tok("num", "", n)
StrTok(s) == Tok("str", s, 0)
NullTok == Tok("null", "", 0)
Prose == Tok("prose", "", 0)

\* what json.loads returns: None, int, str, list, dict (keys in insertion order)
JNull == [type |-> "null", n |-> 0, s |-> "", keys |-> << >>, items |-> << >>]
JNum(n) == [type |-> "num", n |-> n, s |-> "", keys |-> << >>, items |-> << >>]
JStr(s) == [type |-> "str", n |-> 0, s |-> s, keys |-> << >>, items |-> << >>]
JList(items) == [type |-> "list", n |-> 0, s |-> "", keys |-> << >>, items |-> items]
JDict(keys, items) == [type |-> "dict", n |-> 0, s |-> "", keys |-> keys, items |-> items]

\* Python truth value of a JSON value (if compliance_data:, if substance_name)
Truthy(v) ==
  CASE v.type = "null" -> FALSE
    [] v.type = "num" -> v.n # 0
    [] v.type = "str" -> v.s # ""
    [] OTHER -> Len(v.items) > 0

\* key in d, for a dict d
HasKey(d, k) == \E i \in DOMAIN d.keys : d.keys[i] = k

\* d.get(k, default), for a dict d
DictGet(d, k, default) ==
  IF HasKey(d, k) THEN d.items[CHOOSE i \in DOMAIN d.keys : d.keys[i] = k]
  ELSE default

\* a dict under construction: a repeated key keeps its place and takes the last value
DictPut(keys, items, k, v) ==
  IF \E i \in DOMAIN keys : keys[i] = k
  THEN [keys |-> keys,
        items |-> [items EXCEPT ![CHOOSE i \in DOMAIN keys : keys[i] = k] = v]]
  ELSE [keys |-> Append(keys, k), items |-> Append(items, v)]

ParseFail == [ok |-> FALSE, val |-> JNull, next |-> 0]

RECURSIVE ParseValue(_, _), ParseMembers(_, _, _, _), ParseElements(_, _, _)

\* one JSON value starting at token i; next is the index after it
ParseValue(text, i) ==
  IF i > Len(text) THEN ParseFail
  ELSE CASE text[i].t = "num" -> [ok |-> TRUE, val |-> JNum(text[i].n), next |-> i + 1]
         [] text[i].t = "str" -> [ok |-> TRUE, val |-> JStr(text[i].s), next |-> i + 1]
         [] text[i].t = "null" -> [ok |-> TRUE, val |-> JNull, next |-> i + 1]
         [] text[i].t = "{" ->
              IF i + 1 <= Len(text) /\ text[i + 1].t = "}"
              THEN [ok |-> TRUE, val |-> JDict(<< >>, << >>), next |-> i + 2]
              ELSE ParseMembers(text, i + 1, << >>, << >>)
         [] text[i].t = "[" ->
              IF i + 1 <= Len(text) /\ text[i + 1].t = "]"
              THEN [ok |-> TRUE, val |-> JList(<< >>), next |-> i + 2]
              ELSE ParseElements(text, i + 1, << >>)
         [] OTHER -> ParseFail

\* after the member d was extended with, parsed as v: "}" ends the object, ","
\* continues it
AfterMember(text, d, v) ==
  IF ~v.ok \/ v.next > Len(text) THEN ParseFail
  ELSE CASE text[v.next].t = "}" ->
              [ok |-> TRUE, val |-> JDict(d.keys, d.items), next |-> v.next + 1]
         [] text[v.next].t = "," -> ParseMembers(text, v.next + 1, d.keys, d.items)
         [] OTHER -> ParseFail

MemberParsed(text, keys, items, k, v) ==
  AfterMember(text, DictPut(keys, items, k, v.val), v)

\* "key": value ("," "key": value)* "}" starting at token i
ParseMembers(text, i, keys, items) ==
  IF i > Len(text) \/ text[i].t # "key" THEN ParseFail
  ELSE MemberParsed(text, keys, items, text[i].s, ParseValue(text, i + 1))

\* after the element v: "]" ends the list, "," continues it
AfterElement(text, items, v) ==
  IF ~v.ok \/ v.next > Len(text) THEN ParseFail
  ELSE CASE text[v.next].t = "]" ->
              [ok |-> TRUE, val |-> JList(Append(items, v.val)), next |-> v.next + 1]
         [] text[v.next].t = "," -> ParseElements(text, v.next + 1, Append(items, v.val))
         [] OTHER -> ParseFail

\* value ("," value)* "]" starting at token i
ParseElements(text, i, items) == AfterElement(text, items, ParseValue(text, i))

\* the whole text must be one value
WholeText(text, r) ==
  IF r.ok /\ r.next = Len(text) + 1 THEN [ok |-> TRUE, val |-> r.val]
  ELSE [ok |-> FALSE, val |-> JNull]

\* json.loads(text): ok = FALSE stands for json.JSONDecodeError
json_loads(text) == WholeText(text, ParseValue(text, 1))

\* json_pattern: an opening brace, then non-brace characters and brace groups nested
\* at most two levels deeper, then the closing brace.  ScanPattern is the index of
\* the closing brace of the match that starts with depth d open at i - 1, or 0.
RECURSIVE ScanPattern(_, _, _)
ScanPattern(text, i, d) ==
  IF i > Len(text) THEN 0
  ELSE CASE text[i].t = "{" -> IF d = 3 THEN 0 ELSE ScanPattern(text, i + 1, d + 1)
         [] text[i].t = "}" -> IF d = 1 THEN i ELSE ScanPattern(text, i + 1, d - 1)
         [] OTHER -> ScanPattern(text, i + 1, d)

MatchAt(text, i) == IF text[i].t = "{" THEN ScanPattern(text, i + 1, 1) ELSE 0

RECURSIVE re_findall(_, _)

\* the match found at i ends at e, or none is found there (e = 0)
MatchedTo(text, i, e) ==
  IF e > 0 THEN << SubSeq(text, i, e) >> \o re_findall(text, e + 1)
  ELSE re_findall(text, i + 1)

\* re.findall(json_pattern, text, re.DOTALL): the non-overlapping matches, leftmost first
re_findall(text, i) ==
  IF i > Len(text) THEN << >> ELSE MatchedTo(text, i, MatchAt(text, i))

\* 'lmr_data' in parsed or 'rasff_alerts' in parsed
HasExpectedShape(parsed) == HasKey(parsed, "lmr_data") \/ HasKey(parsed, "rasff_alerts")

RECURSIVE FirstValid(_, _)

\* mutant of MatchParsed: the structure check dropped
MatchParsedUnchecked(matches, i, parsed) ==
  IF parsed.ok THEN parsed.val ELSE FirstValid(matches, i + 1)

\* the loop body: parsed is json.loads(match), or its JSONDecodeError
MatchParsed(matches, i, parsed) ==
  IF parsed.ok /\ HasExpectedShape(parsed.val) THEN parsed.val
  ELSE FirstValid(matches, i + 1)

\* for match in matches: the first match that parses and has the expected structure
FirstValid(matches, i) ==
  IF i > Len(matches) THEN JNull ELSE MatchParsed(matches, i, json_loads(matches[i]))

\* try: return json.loads(text) / except json.JSONDecodeError: search the text
DirectOrSearch(text, direct) ==
  IF direct.ok THEN direct.val ELSE FirstValid(re_findall(text, 1), 1)

\* DyadComplianceNavigator._extract_json_from_response, for a str argument
\* (JNull is None)
extract_json_from_response(text) == DirectOrSearch(text, json_loads(text))

\* -------------------------------- DyadComplianceNavigator.search_compliance_data
\* what the remote call gives: requests.post times out, fails to connect, or answers
\* with a status code and a body.  The body is not JSON ("invalid_json"), JSON that
\* is no object ("not_object"), an object whose output is no string
\* ("output_not_text"), or an object whose output is the string text.
Http(outcome, status_code, body, text) ==
  [outcome |-> outcome, status_code |-> status_code, body |-> body, text |-> text]

NoHttp == Http("none", 0, "none", << >>)

\* if not self.api_key: None (unset) and the empty string are both falsy
ApiKeys == {"None", "", "sk-dyad"}

\* mutant of KeyConfigured: the credential check dropped
KeyConfiguredAlways(api_key) == TRUE

KeyConfigured(api_key) == api_key \notin {"None", ""}

Return(val, extracted) == [exc |-> "", val |-> val, extracted |-> extracted]
Raise(exc, extracted) == [exc |-> exc, val |-> JNull, extracted |-> extracted]

NotExtracted == [called |-> FALSE, val |-> JNull]
Extracted(val) == [called |-> TRUE, val |-> val]

\* if compliance_data: the two summary prints, then return compliance_data; else
\* return None.  The prints evaluate compliance_data.get('rasff_alerts', {}).get(...)
\* and len(compliance_data.get('lmr_data', [])).
SummariseAndReturn(compliance_data) ==
  IF ~Truthy(compliance_data) THEN Return(JNull, Extracted(compliance_data))
  ELSE IF compliance_data.type # "dict"
       THEN Raise("AttributeError", Extracted(compliance_data))
  ELSE IF DictGet(compliance_data, "rasff_alerts", JDict(<< >>, << >>)).type # "dict"
       THEN Raise("AttributeError", Extracted(compliance_data))
  ELSE IF DictGet(compliance_data, "lmr_data", JList(<< >>)).type \in {"num", "null"}
       THEN Raise("TypeError", Extracted(compliance_data))
  ELSE Return(compliance_data, Extracted(compliance_data))

\* the try block: what it returns, or the exception it raises; extracted is what
\* _extract_json_from_response returned, when it was called and returned
SearchTry(http) ==
  CASE http.outcome = "timeout" -> Raise("Timeout", NotExtracted)
    [] http.outcome = "connection_error" -> Raise("ConnectionError", NotExtracted)
    [] http.status_code # 200 -> Return(JNull, NotExtracted)
    [] http.body = "invalid_json" -> Raise("JSONDecodeError", NotExtracted)
    [] http.body = "not_object" -> Raise("AttributeError", NotExtracted)
    [] http.body = "output_not_text" -> Raise("TypeError", NotExtracted)
    [] OTHER -> SummariseAndReturn(extract_json_from_response(http.text))

\* isinstance(exc, cls) for the classes of the except clauses.  The error of
\* response.json() is taken as no RequestException (it is one in recent versions of
\* requests); either way an except clause catches it.
IsInstance(exc, cls) ==
  CASE cls = "Timeout" -> exc = "Timeout"
    [] cls = "RequestException" -> exc \in {"Timeout", "ConnectionError"}
    [] OTHER -> TRUE

\* mutant of Caught: the final except Exception clause missing
CaughtRequestsOnly(exc) ==
  \E cls \in {"Timeout", "RequestException"} : IsInstance(exc, cls)

\* except Timeout / except RequestException / except Exception
Caught(exc) ==
  \E cls \in {"Timeout", "RequestException", "Exception"} : IsInstance(exc, cls)

\* the except clauses: every exception they catch becomes return None
Handled(r) ==
  [data |-> IF r.exc = "" THEN r.val ELSE JNull,
   raised |-> IF r.exc = "" \/ Caught(r.exc) THEN "" ELSE r.exc,
   requested |-> TRUE,
   extracted |-> r.extracted]

\* the call: data is the returned value (JNull is None), raised the exception that
\* leaves the method ("" when none does), requested whether requests.post was called
search_compliance_data(api_key, http) ==
  IF ~KeyConfigured(api_key)
  THEN [data |-> JNull, raised |-> "", requested |-> FALSE, extracted |-> NotExtracted]
  ELSE Handled(SearchTry(http))

\* ----------------------------------------------------------------- database
\* DATABASE_URL names a PostgreSQL server unless the environment gives another
\* (the test module runs the application over SQLite)
Dialects == {"postgresql", "sqlite"}

\* lmr_data_list[:10]
MaxLmrItems == 10

ProductRow(id, key, ncm_code) == [id |-> id, key |-> key, ncm_code |-> ncm_code]

\* .first() of a query that matches no row
NoProduct == ProductRow(0, "", "")

\* db.query(Product).filter(Product.key == product_key).first(); key is unique
FindProduct(rows, product_key) ==
  IF \E i \in DOMAIN rows : rows[i].key = product_key
  THEN rows[CHOOSE i \in DOMAIN rows : rows[i].key = product_key]
  ELSE NoProduct

\* what the String column holds for a bound parameter (SQLite stores a number
\* given for a text column as its decimal text)
ColumnText(v) == IF v.type = "num" THEN ToString(v.n) ELSE v.s

\* db.query(LMRData).filter(product_id == ..., substance == ...).first() finds a row
HasLmrRow(rows, product_id, substance_name) ==
  \E i \in DOMAIN rows :
    rows[i].product_id = product_id /\ rows[i].substance = ColumnText(substance_name)

\* the comparison LMRData.substance == substance_name raises: PostgreSQL has no
\* operator comparing character varying with a number or an array, and neither
\* driver binds a dict (SQLite's binds no list)
LookupRaises(dialect, substance_name) ==
  CASE substance_name.type = "str" -> FALSE
    [] substance_name.type = "num" -> dialect = "postgresql"
    [] OTHER -> TRUE

\* the statement reached the PostgreSQL server and failed there: the transaction is
\* aborted and every later statement of the session fails until a rollback
LookupAborts(dialect, substance_name) ==
  dialect = "postgresql" /\ substance_name.type \in {"num", "list"}

\* db.query(RiskAssessment).filter(product_id == ...)
\*   .order_by(calculation_timestamp.desc()).first(): rows are kept in insertion order
HasAssessment(rows, product_id) == \E i \in DOMAIN rows : rows[i].product_id = product_id

LatestAssessment(rows, product_id) ==
  rows[CHOOSE i \in DOMAIN rows :
         /\ rows[i].product_id = product_id
         /\ \A j \in DOMAIN rows : rows[j].product_id = product_id => j <= i]

\* ------------------------------------------------------------ HTTP responses
NoResult == calculate(NoProfileNcm, 0, 0)

\* status_code 200 with a result, or an error with its detail; lookup tells how the
\* Dyad lookup of an export ended ("no_data", "raised", "data"), data_source is
\* the provenance tag of the report and posted tells what product_data a
\* create_product request carried
Response(op, product_key, rasff_6m, rasff_12m, status_code, detail, result, data_source, lookup, posted) ==
  [op |-> op, product_key |-> product_key, rasff_alerts_6m |-> rasff_6m,
   rasff_alerts_12m |-> rasff_12m, status_code |-> status_code, detail |-> detail,
   result |-> result, data_source |-> data_source, lookup |-> lookup,
   posted |-> posted]

NoResponse == Response("", "", 0, 0, 0, "", NoResult, "", "", "")

\* raise HTTPException(status_code=404, detail="Product not found")
NotFound(op, product_key, rasff_6m, rasff_12m) ==
  Response(op, product_key, rasff_6m, rasff_12m, 404, "Product not found", NoResult,
           "", "", "")

\* an exception that leaves the handler: the framework answers 500
ServerError(op, product_key, rasff_6m, rasff_12m, exc, lookup) ==
  Response(op, product_key, rasff_6m, rasff_12m, 500, exc, NoResult, "", lookup, "")

\* --------------------------------------------- export_risk_pdf: the try block
\* float(eu_limit) for the strings that are numerals among those the texts carry
Numerals == [s \in {"0", "1"} |-> IF s = "0" THEN 0 ELSE 1]

FloatRaises(v) ==
  CASE v.type = "num" -> FALSE
    [] v.type = "str" -> v.s \notin DOMAIN Numerals
    [] OTHER -> TRUE

FloatError(v) == IF v.type = "str" THEN "ValueError" ELSE "TypeError"

FloatOf(v) == IF v.type = "num" THEN v.n ELSE Numerals[v.s]

\* LMRData(product_id=..., substance=..., dest_lmr=float(eu_limit), source_authority=...)
LmrRow(product_id, substance_name, eu_limit) ==
  [product_id |-> product_id, substance |-> ColumnText(substance_name),
   dest_lmr |-> FloatOf(eu_limit), source_authority |-> "Dyad AI / EU Database"]

\* how the loop ends: the exception raised ("" when none), whether it left the
\* transaction aborted, the rows db.add()ed
LoopEnd(exc, aborted, pending) == [exc |-> exc, aborted |-> aborted, pending |-> pending]

RECURSIVE SaveLmrItems(_, _, _, _, _, _)

\* an item with a substance name and a limit: the lookup sees the rows committed
\* before (autoflush is off), then the row is added unless one was found
SaveNamedItem(dialect, items, i, product_id, rows, pending, substance_name, eu_limit) ==
  IF LookupRaises(dialect, substance_name)
  THEN LoopEnd("DBAPIError", LookupAborts(dialect, substance_name), pending)
  ELSE IF HasLmrRow(rows, product_id, substance_name)
  THEN SaveLmrItems(dialect, items, i + 1, product_id, rows, pending)
  ELSE IF FloatRaises(eu_limit) THEN LoopEnd(FloatError(eu_limit), FALSE, pending)
  ELSE SaveLmrItems(dialect, items, i + 1, product_id, rows,
                    Append(pending, LmrRow(product_id, substance_name, eu_limit)))

\* if substance_name and eu_limit is not None
SaveLmrFields(dialect, items, i, product_id, rows, pending, substance_name, eu_limit) ==
  IF Truthy(substance_name) /\ eu_limit.type # "null"
  THEN SaveNamedItem(dialect, items, i, product_id, rows, pending, substance_name,
                     eu_limit)
  ELSE SaveLmrItems(dialect, items, i + 1, product_id, rows, pending)

\* lmr_item.get('substance', ''), lmr_item.get('eu_limit_mg_kg')
SaveLmrItem(dialect, items, i, product_id, rows, pending, lmr_item) ==
  IF lmr_item.type # "dict" THEN LoopEnd("AttributeError", FALSE, pending)
  ELSE SaveLmrFields(dialect, items, i, product_id, rows, pending,
                     DictGet(lmr_item, "substance", JStr("")),
                     DictGet(lmr_item, "eu_limit_mg_kg", JNull))

\* for lmr_item in lmr_data_list[:10], from item i on
SaveLmrItems(dialect, items, i, product_id, rows, pending) ==
  IF i > Len(items) \/ i > MaxLmrItems THEN LoopEnd("", FALSE, pending)
  ELSE SaveLmrItem(dialect, items, i, product_id, rows, pending, items[i])

\* lmr_data_list[:10] and the loop: a list is walked, a string is walked by
\* character (a character has no get), anything else cannot be sliced
SaveLmrList(dialect, lmr_data_list, product_id, rows) ==
  CASE lmr_data_list.type = "list" ->
         SaveLmrItems(dialect, lmr_data_list.items, 1, product_id, rows, << >>)
    [] lmr_data_list.type = "str" ->
         LoopEnd(IF lmr_data_list.s = "" THEN "" ELSE "AttributeError", FALSE, << >>)
    [] OTHER -> LoopEnd("TypeError", FALSE, << >>)

\* how the try block ends: the exception the except clause catches ("" when none),
\* whether the transaction is left aborted, the LMRData table, the alert counts
TryEnd(exc, aborted, lmr_rows, rasff_6m, rasff_12m) ==
  [exc |-> exc, aborted |-> aborted, lmr_rows |-> lmr_rows, rasff_6m |-> rasff_6m,
   rasff_12m |-> rasff_12m]

\* db.commit() after the loop: the added rows are inserted
Committed(rows, rasff_6m, rasff_12m, loop) ==
  IF loop.exc # "" THEN TryEnd(loop.exc, loop.aborted, rows, JNum(0), JNum(0))
  ELSE TryEnd("", FALSE, rows \o loop.pending, rasff_6m, rasff_12m)

\* rasff_alerts.get('last_6_months', 0), rasff_alerts.get('last_12_months', 0), the loop
WithAlerts(dialect, dyad_compliance_data, product_id, rows, rasff_alerts) ==
  IF rasff_alerts.type # "dict" THEN TryEnd("AttributeError", FALSE, rows, JNum(0), JNum(0))
  ELSE Committed(rows, DictGet(rasff_alerts, "last_6_months", JNum(0)),
                 DictGet(rasff_alerts, "last_12_months", JNum(0)),
                 SaveLmrList(dialect, DictGet(dyad_compliance_data, "lmr_data", JList(<< >>)),
                             product_id, rows))

\* the body of if dyad_compliance_data:
ProcessDyadData(dialect, dyad_compliance_data, product_id, rows) ==
  IF dyad_compliance_data.type # "dict"
  THEN TryEnd("AttributeError", FALSE, rows, JNum(0), JNum(0))
  ELSE WithAlerts(dialect, dyad_compliance_data, product_id, rows,
                  DictGet(dyad_compliance_data, "rasff_alerts", JDict(<< >>, << >>)))

\* ------------------------------------------------------------- export_risk_pdf
\* what a handler leaves: its response and the table it writes
Exported(response, lmr_rows) == [response |-> response, lmr_rows |-> lmr_rows]

\* calc.calculate(product, rasff_6m, rasff_12m), the provenance tag, the report;
\* the comparisons rasff_6m > 0 and rasff_12m > 5 raise for a value that is no number.
\* ZOIReportGenerator.generate_risk_pdf only lays the result out and is taken to
\* return the document.
ExportScored(product, lmr_rows, lookup, data_source, rasff_6m, rasff_12m) ==
  IF rasff_6m.type # "num" \/ rasff_12m.type # "num"
  THEN Exported(ServerError("export_risk_pdf", product.key, 0, 0, "TypeError", lookup),
                lmr_rows)
  ELSE Exported(Response("export_risk_pdf", product.key, 0, 0, 200, "",
                         calculate(product.ncm_code, rasff_6m.n, rasff_12m.n),
                         data_source, lookup, ""),
                lmr_rows)

\* if not dyad_compliance_data: the latest stored assessment of the product; the
\* query raises when the transaction was left aborted
ExportFallback(product, assessments, lmr_rows, lookup, aborted) ==
  IF aborted
  THEN Exported(ServerError("export_risk_pdf", product.key, 0, 0, "InternalError", lookup),
                lmr_rows)
  ELSE IF HasAssessment(assessments, product.id)
  THEN ExportScored(product, lmr_rows, lookup, "database_fallback",
                    JNum(LatestAssessment(assessments, product.id).rasff_alerts_6m),
                    JNum(LatestAssessment(assessments, product.id).rasff_alerts_12m))
  ELSE ExportScored(product, lmr_rows, lookup, "database_fallback", JNum(0), JNum(0))

\* after the try block ended as t
ExportTried(product, assessments, t) ==
  IF t.exc = ""
  THEN ExportScored(product, t.lmr_rows, "data", "dyad_ai", t.rasff_6m, t.rasff_12m)
  ELSE ExportFallback(product, assessments, t.lmr_rows, "raised", t.aborted)

\* after search_compliance_data returned data
ExportLookedUp(dialect, product, lmr_rows, assessments, data) ==
  IF Truthy(data)
  THEN ExportTried(product, assessments, ProcessDyadData(dialect, data, product.id, lmr_rows))
  ELSE ExportFallback(product, assessments, lmr_rows, "no_data", FALSE)

WithRequested(out, requested) ==
  [response |-> out.response, lmr_rows |-> out.lmr_rows, requested |-> requested]

\* after the product was found and search_compliance_data ended as r (it never
\* raises: a raise would be caught by the except clause of the handler)
ExportSearched(dialect, product, lmr_rows, assessments, r) ==
  WithRequested(
    IF r.raised # "" THEN ExportFallback(product, assessments, lmr_rows, "raised", FALSE)
    ELSE ExportLookedUp(dialect, product, lmr_rows, assessments, r.data),
    r.requested)

\* the handler, for the product row found (NoProduct when none is)
ExportFor(dialect, api_key, product, product_key, lmr_rows, assessments, http) ==
  IF product = NoProduct
  THEN WithRequested(Exported(NotFound("export_risk_pdf", product_key, 0, 0), lmr_rows),
                     FALSE)
  ELSE ExportSearched(dialect, product, lmr_rows, assessments,
                      search_compliance_data(api_key, http))

export_risk_pdf(dialect, api_key, product_rows, lmr_rows, assessments, product_key, http) ==
  ExportFor(dialect, api_key, FindProduct(product_rows, product_key), product_key,
            lmr_rows, assessments, http)

\* --------------------------------------------------------------- calculate_risk
\* mutant of EstimateAlerts: estimates as soon as one of the two counts is 0
EstimateAlertsEitherZero(ncm_code, rasff_alerts_6m, rasff_alerts_12m) ==
  IF (rasff_alerts_6m = 0 \/ rasff_alerts_12m = 0) /\ HasProfile(ncm_code)
  THEN [rasff_alerts_6m |->
          Min(NCM_RISK_PROFILES[ncm_code].historical_rejections \div 2,
              NCM_RISK_PROFILES[ncm_code].historical_rejections),
        rasff_alerts_12m |-> NCM_RISK_PROFILES[ncm_code].historical_rejections]
  ELSE [rasff_alerts_6m |-> rasff_alerts_6m, rasff_alerts_12m |-> rasff_alerts_12m]

\* the counts the score is computed from: estimates from the static profile when the
\* request carries 0 and 0 and the code has a profile
EstimateAlerts(ncm_code, rasff_alerts_6m, rasff_alerts_12m) ==
  IF rasff_alerts_6m = 0 /\ rasff_alerts_12m = 0 /\ HasProfile(ncm_code)
  THEN [rasff_alerts_6m |->
          Min(NCM_RISK_PROFILES[ncm_code].historical_rejections \div 2,
              NCM_RISK_PROFILES[ncm_code].historical_rejections),
        rasff_alerts_12m |-> NCM_RISK_PROFILES[ncm_code].historical_rejections]
  ELSE [rasff_alerts_6m |-> rasff_alerts_6m, rasff_alerts_12m |-> rasff_alerts_12m]

\* RiskAssessment(product_id=..., final_score=..., ...)
AssessmentRow(product_id, result) ==
  [product_id |-> product_id, final_score |-> result.score, status |-> result.status,
   rasff_score |-> result.components.Sanitario,
   lmr_score |-> result.components.Fitossanitario,
   phyto_score |-> result.components.Fitossanitario,
   logistic_score |-> result.components.Logistico,
   penalty |-> 10000 - result.score,
   rasff_alerts_6m |-> result.alerts.rasff_6m,
   rasff_alerts_12m |-> result.alerts.rasff_12m,
   recommendations |-> result.recommendations]

\* db.commit() of the save: the INSERT succeeds, or the database refuses it (a count
\* beyond the 32 bits of an Integer column on PostgreSQL, a lost connection)
CommitOutcomes == {"committed", "raised"}

Calculated(response, assessments) == [response |-> response, assessments |-> assessments]

\* mutant of RiskSaved: hidden state, the score drifting with the number of assessments
\* already stored
RiskSavedWithHistory(commit, product, assessments, rasff_alerts_6m, rasff_alerts_12m, result) ==
  Calculated(Response("calculate_risk", product.key, rasff_alerts_6m,
                      rasff_alerts_12m, 200, "",
                      [result EXCEPT !.score = @ - Len(assessments)], "", "", ""),
             Append(assessments,
                    AssessmentRow(product.id,
                                  [result EXCEPT !.score = @ - Len(assessments)])))

\* the save and the response.  A failed flush rolls the session back and expires the
\* product; the except clause only prints, and building the response reads
\* product.name_pt, which the rolled-back session refuses to reload.
RiskSaved(commit, product, assessments, rasff_alerts_6m, rasff_alerts_12m, result) ==
  IF commit = "raised"
  THEN Calculated(ServerError("calculate_risk", product.key, rasff_alerts_6m,
                              rasff_alerts_12m, "PendingRollbackError", ""),
                  assessments)
  ELSE Calculated(Response("calculate_risk", product.key, rasff_alerts_6m,
                           rasff_alerts_12m, 200, "", result, "", "", ""),
                  Append(assessments, AssessmentRow(product.id, result)))

RiskEstimated(commit, product, assessments, rasff_alerts_6m, rasff_alerts_12m, used) ==
  RiskSaved(commit, product, assessments, rasff_alerts_6m, rasff_alerts_12m,
            calculate(product.ncm_code, used.rasff_alerts_6m, used.rasff_alerts_12m))

\* the handler, for the product row found (NoProduct when none is)
RiskFor(commit, product, product_key, assessments, rasff_alerts_6m, rasff_alerts_12m) ==
  IF product = NoProduct
  THEN Calculated(NotFound("calculate_risk", product_key, rasff_alerts_6m,
                           rasff_alerts_12m),
                  assessments)
  ELSE RiskEstimated(commit, product, assessments, rasff_alerts_6m, rasff_alerts_12m,
                     EstimateAlerts(product.ncm_code, rasff_alerts_6m, rasff_alerts_12m))

calculate_risk(commit, product_rows, assessments, product_key, rasff_alerts_6m, rasff_alerts_12m) ==
  RiskFor(commit, FindProduct(product_rows, product_key), product_key, assessments,
          rasff_alerts_6m, rasff_alerts_12m)

\* --------------------------------------------------------------- create_product
\* product_data as posted: fields tells whether every required field is there and
\* direction and state name members of their enums; "invalid_ranges" is a complete
\* product_data with a negative shelf_life_days or transport_days_avg, or with
\* temperature_min_c above temperature_max_c
ProductData(key, ncm_code, fields) == [key |-> key, ncm_code |-> ncm_code, fields |-> fields]

\* mutant of CreateRaises: no unique constraint on Product.key
CreateRaisesWithoutUniqueKey(product_rows, product_data) ==
  CASE product_data.fields = "missing_field" -> "KeyError"
    [] product_data.fields = "invalid_enum" -> "ValueError"
    [] OTHER -> ""

\* the exception raised inside the try ("" when none): KeyError for a missing field,
\* ValueError for an unknown direction or state, IntegrityError for a key already
\* stored; the numeric fields of product_data are not read
CreateRaises(product_rows, product_data) ==
  CASE product_data.fields = "missing_field" -> "KeyError"
    [] product_data.fields = "invalid_enum" -> "ValueError"
    [] FindProduct(product_rows, product_data.key) # NoProduct -> "IntegrityError"
    [] OTHER -> ""

Created(response, product_rows, tasks) ==
  [response |-> response, product_rows |-> product_rows, tasks |-> tasks]

\* session.add, commit, refresh, background_tasks.add_task(run_initial_scraping, ...);
\* on any exception session.rollback() and {"status": "error", ...}
CreateTried(product_rows, tasks, product_data, exc) ==
  IF exc # ""
  THEN Created(Response("create_product", product_data.key, 0, 0, 200, "error", NoResult,
                        "", "", product_data.fields),
               product_rows, tasks)
  ELSE Created(Response("create_product", product_data.key, 0, 0, 200, "success",
                        NoResult, "", "", product_data.fields),
               Append(product_rows,
                      ProductRow(Len(product_rows) + 1, product_data.key,
                                 product_data.ncm_code)),
               Append(tasks, product_data.key))

create_product(product_rows, tasks, product_data) ==
  CreateTried(product_rows, tasks, product_data, CreateRaises(product_rows, product_data))

\* ------------------------------------------------------- users and authentication
\* UserCreate.email: EmailStr.  Validation refuses an address without a domain (""
\* here) and hands the handler the normalised address, its domain in lower case.
EmailStr(email) ==
  CASE email = "ana" -> ""
    [] email = "ana@ZOI.com" -> "ana@zoi.com"
    [] OTHER -> email

\* pwd_context.hash(password): a bcrypt hash carries its salt and the checksum of the
\* salt and the password
get_password_hash(password, salt) == [salt |-> salt, checksum |-> << salt, password >>]

\* pwd_context.verify(plain_password, hashed_password)
verify_password(plain_password, hashed_password) ==
  hashed_password.checksum = << hashed_password.salt, plain_password >>

\* db.query(User).filter(User.email == email).first(); email is unique; a row with
\* an empty email stands for None
FindUser(rows, email) ==
  IF \E i \in DOMAIN rows : rows[i].email = email
  THEN rows[CHOOSE i \in DOMAIN rows : rows[i].email = email]
  ELSE [email |-> "", hashed_password |-> get_password_hash("", "")]

\* the answer to a create_user or login request, with the credentials as posted;
\* access_token is the subject of the token issued ("" when none is)
AuthResponse(op, username, password, status_code, detail, access_token) ==
  [op |-> op, username |-> username, password |-> password, status_code |-> status_code,
   detail |-> detail, access_token |-> access_token]

\* POST /api/users
create_user(rows, email, password, salt) ==
  IF EmailStr(email) = ""
  THEN [response |-> AuthResponse("create_user", email, password, 422,
                                  "value is not a valid email address", ""),
        users |-> rows]
  ELSE IF FindUser(rows, EmailStr(email)).email # ""
  THEN [response |-> AuthResponse("create_user", email, password, 400,
                                  "Email already registered", ""),
        users |-> rows]
  ELSE [response |-> AuthResponse("create_user", email, password, 201,
                                  "User created successfully", ""),
        users |-> Append(rows, [email |-> EmailStr(email),
                                hashed_password |-> get_password_hash(password, salt)])]

\* POST /token; create_access_token(data={"sub": user.email})
login(rows, username, password) ==
  IF \/ FindUser(rows, username).email = ""
     \/ ~verify_password(password, FindUser(rows, username).hashed_password)
  THEN AuthResponse("login", username, password, 401, "Incorrect email or password", "")
  ELSE AuthResponse("login", username, password, 200, "bearer",
                    FindUser(rows, username).email)

\* ------------------------------------------------------------------- state
VARIABLES
  calc_ncm,    \* the classification code of the product the calculator is called with
  calc_12m,    \* the rasff_12m the calculator is called with
  calc_calls,  \* the last two calculate calls, oldest first: <<[rasff_6m, out], ...>>
  dyad_api_key,   \* DYAD_API_KEY as DyadComplianceNavigator.__init__ read it
  dyad_call,      \* the search_compliance_data call: the response received, the outcome
  dyad_requests,  \* the number of requests sent to the Dyad API
  db_dialect,        \* the database DATABASE_URL names
  products,          \* the products table, in insertion order
  lmr_data,          \* the lmr_data table, in insertion order
  risk_assessments,  \* the risk_assessments table, in insertion order
  users,             \* the users table, in insertion order
  background_tasks,  \* the audits create_product scheduled: product keys
  response           \* the response to the last request

calcVars == << calc_ncm, calc_12m, calc_calls >>
dyadVars == << dyad_api_key, dyad_call, dyad_requests >>
dbVars == << db_dialect, products, lmr_data, risk_assessments, users, background_tasks >>
vars == << calcVars, dyadVars, dbVars, response >>

\* ----------------------------------------------- specification: the calculator
\* the counts of the high-risk scenario of test_risk_calculation_high
HighRiskAlerts6m == 10
HighRiskAlerts12m == 15

AlertCounts6 == (-NegAlerts .. MaxAlerts6) \cup {LargeCount, HighRiskAlerts6m}
AlertCounts12 == (-NegAlerts .. MaxAlerts12) \cup {LargeCount, HighRiskAlerts12m}

LastTwo(s) == IF Len(s) <= 2 THEN s ELSE SubSeq(s, Len(s) - 1, Len(s))

\* the adapter before any call
DyadIdle ==
  /\ dyad_call = [done |-> FALSE, http |-> NoHttp, data |-> JNull, raised |-> "",
                  requested |-> FALSE, extracted |-> NotExtracted]
  /\ dyad_requests = 0

\* the tables as Base.metadata.create_all leaves them, before any request
DbIdle ==
  /\ products = << >>
  /\ lmr_data = << >>
  /\ risk_assessments = << >>
  /\ users = << >>
  /\ background_tasks = << >>
  /\ response = NoResponse

\* the calculator before any call
CalcIdle ==
  /\ calc_ncm = NoProfileNcm
  /\ calc_12m = 0
  /\ calc_calls = << >>

InitCalc ==
  /\ calc_ncm \in NcmCodes
  /\ calc_12m \in AlertCounts12
  /\ calc_calls = << >>
  /\ dyad_api_key = "None"
  /\ DyadIdle
  /\ db_dialect = "postgresql"
  /\ DbIdle

Calculate(rasff_6m) ==
  /\ calc_calls' = LastTwo(Append(calc_calls,
        [rasff_6m |-> rasff_6m, out |-> calculate(calc_ncm, rasff_6m, calc_12m)]))
  /\ UNCHANGED << calc_ncm, calc_12m, dyadVars, dbVars, response >>

NextCalc == \E a6 \in AlertCounts6 : Calculate(a6)

SpecCalc == InitCalc /\ [][NextCalc]_vars

\* C7: the final score of every scoring call lies in [0, 100] (0..10000 hundredths),
\* whatever the classification code and the alert counts (zero, negative, very large).
C7_ScoreWithinRange ==
  \A i \in DOMAIN calc_calls :
    /\ calc_calls[i].out.score >= 0
    /\ calc_calls[i].out.score <= 10000

\* a negative 6-month count was scored, then a very large one, with a very large
\* 12-month count
C7_Witness ==
  /\ Len(calc_calls) = 2
  /\ calc_12m = LargeCount
  /\ calc_calls[1].rasff_6m < 0
  /\ calc_calls[2].rasff_6m = LargeCount

\* C8: the status of every result is exactly one of green (score >= 80), yellow
\* (60 <= score < 80), red (score < 60): the tiers cover every score and do not overlap.
C8_StatusPartition ==
  \A i \in DOMAIN calc_calls :
    LET r == calc_calls[i].out
    IN /\ r.status \in {"green", "yellow", "red"}
       /\ (r.status = "green") <=> (r.score >= 8000)
       /\ (r.status = "yellow") <=> (r.score >= 6000 /\ r.score < 8000)
       /\ (r.status = "red") <=> (r.score < 6000)

\* one product scored yellow and then red; its score lies between 60 and 65 or below 60
C8_Witness ==
  /\ Len(calc_calls) = 2
  /\ calc_calls[1].out.status = "yellow"
  /\ calc_calls[1].out.score < 6500
  /\ calc_calls[2].out.status = "red"

\* C9: for a fixed product and a fixed rasff_12m, a call with a larger rasff_6m never
\* has a higher (safer) sanitary component nor a higher score than a call with a
\* smaller rasff_6m.
C9_MonotoneIn6m ==
  \A i, j \in DOMAIN calc_calls :
    calc_calls[i].rasff_6m <= calc_calls[j].rasff_6m =>
      /\ calc_calls[j].out.components.Sanitario <= calc_calls[i].out.components.Sanitario
      /\ calc_calls[j].out.score <= calc_calls[i].out.score

\* two calls with different rasff_6m whose results differ
C9_Witness ==
  /\ Len(calc_calls) = 2
  /\ calc_calls[1].rasff_6m < calc_calls[2].rasff_6m
  /\ calc_calls[2].out.score < calc_calls[1].out.score

\* ------------------------------------------------ specification: the Dyad adapter
\* the tokens of the response texts tried: braces, the two expected keys, another
\* key, a number and prose
Alphabet ==
  {LBrace, RBrace, Key("lmr_data"), Key("rasff_alerts"), Key("other"), NumTok(1), Prose}

StatusCodes == {200, 204, 500}

\* the answers that carry no response text
HttpFailures ==
  {Http("timeout", 0, "none", << >>), Http("connection_error", 0, "none", << >>)}
  \cup {Http("response", c, "invalid_json", << >>) : c \in StatusCodes}
  \cup {Http("response", 200, b, << >>) : b \in {"not_object", "output_not_text"}}

InitDyad ==
  /\ dyad_api_key \in ApiKeys
  /\ DyadIdle
  /\ CalcIdle
  /\ db_dialect = "postgresql"
  /\ DbIdle

\* the call returned r
Searched(http, r) ==
  /\ dyad_call' = [done |-> TRUE, http |-> IF r.requested THEN http ELSE NoHttp,
                   data |-> r.data, raised |-> r.raised,
                   requested |-> r.requested, extracted |-> r.extracted]
  /\ dyad_requests' = dyad_requests + (IF r.requested THEN 1 ELSE 0)
  /\ UNCHANGED << dyad_api_key, calcVars, dbVars, response >>

\* one call of search_compliance_data; http is what the remote gives if it is asked
Search(http) == Searched(http, search_compliance_data(dyad_api_key, http))

SearchFailing == \E http \in HttpFailures : Search(http)

SearchAnswered ==
  \E n \in 0 .. MaxTextLen : \E text \in [1 .. n -> Alphabet] :
    Search(Http("response", 200, "output_text", text))

\* a complete record as the agent is prompted to give it
RecordText ==
  << LBrace, Key("rasff_alerts"), LBrace, Key("last_6_months"), NumTok(1), Comma,
     Key("last_12_months"), NumTok(2), RBrace, Comma, Key("lmr_data"), LBracket,
     LBrace, Key("substance"), StrTok("a"), Comma, Key("eu_limit_mg_kg"), NumTok(1),
     RBrace, RBracket, RBrace >>

\* longer response texts: the record alone, in prose, after an object without the
\* expected keys, after an empty object; two qualifying objects; an expected key
\* nested four braces deep; JSON texts that are no object; a null lmr_data
SampleTexts ==
  { RecordText,
    << Prose >> \o RecordText \o << Prose >>,
    << Prose, LBrace, Key("other"), NumTok(1), RBrace, Prose >> \o RecordText,
    << LBrace, RBrace, LBrace, Key("rasff_alerts"), LBrace, RBrace, RBrace >>,
    << LBrace, Key("lmr_data"), LBracket, RBracket, RBrace, Prose,
       LBrace, Key("rasff_alerts"), LBrace, RBrace, RBrace >>,
    << Prose, LBrace, Key("other"), LBrace, Key("other"), LBrace, Key("other"),
       LBrace, Key("lmr_data"), NumTok(1), RBrace, RBrace, RBrace, RBrace >>,
    << LBracket, NumTok(1), RBracket >>,
    << StrTok("a") >>,
    << NullTok >>,
    << NumTok(0) >>,
    << LBrace, Key("lmr_data"), NullTok, RBrace >> }

SearchSampled ==
  \E text \in SampleTexts : Search(Http("response", 200, "output_text", text))

NextDyad == ~dyad_call.done /\ (SearchFailing \/ SearchAnswered \/ SearchSampled)

SpecDyad == InitDyad /\ [][NextDyad]_vars

\* C2: search_compliance_data never raises, and returns None when the key is missing,
\* the call times out, the connection fails, the status is not 200 or no record was
\* parsed from the body; it returns a record only when the status is 200 and a
\* record was parsed.
C2_UnavailableNeverRaises ==
  dyad_call.done =>
    /\ dyad_call.raised = ""
    /\ ( \/ dyad_api_key \in {"None", ""}
         \/ dyad_call.http.outcome \in {"timeout", "connection_error"}
         \/ dyad_call.http.status_code # 200
         \/ ~dyad_call.extracted.called
         \/ dyad_call.extracted.val.type # "dict" ) => dyad_call.data = JNull
    /\ dyad_call.data # JNull =>
         /\ dyad_call.http.outcome = "response"
         /\ dyad_call.http.status_code = 200
         /\ dyad_call.extracted.called
         /\ dyad_call.extracted.val.type = "dict"
         /\ dyad_call.data = dyad_call.extracted.val

\* a status-200 answer whose text parsed to a truthy value that is no record: the
\* summary raised inside the try and the call returned None
C2_Witness ==
  /\ dyad_call.done
  /\ dyad_call.requested
  /\ dyad_call.extracted.called
  /\ Truthy(dyad_call.extracted.val)
  /\ dyad_call.extracted.val.type # "dict"
  /\ dyad_call.data = JNull
  /\ dyad_call.raised = ""

\* C3: search_compliance_data never hands its caller a record without the expected
\* top-level shape (an lmr_data or a rasff_alerts key): whatever the response text,
\* valid JSON included, such a text gives None.
C3_ShapelessNeverReturned ==
  (dyad_call.done /\ dyad_call.data # JNull) => HasExpectedShape(dyad_call.data)

\* C4: when the text is not valid JSON as a whole, _extract_json_from_response
\* returns the first candidate object, in text order, that parses and has an
\* lmr_data or rasff_alerts key, and None when no candidate qualifies.
C4_FirstQualifyingCandidate ==
  (dyad_call.extracted.called /\ ~json_loads(dyad_call.http.text).ok) =>
    LET matches == re_findall(dyad_call.http.text, 1)
        qualifying == {i \in DOMAIN matches :
                         /\ json_loads(matches[i]).ok
                         /\ HasExpectedShape(json_loads(matches[i]).val)}
    IN IF qualifying = {} THEN dyad_call.extracted.val = JNull
       ELSE \E i \in qualifying :
              /\ \A j \in qualifying : i <= j
              /\ dyad_call.extracted.val = json_loads(matches[i]).val

\* a text in prose whose first candidate parses but lacks both keys and whose second
\* candidate was returned
C4_Witness ==
  /\ dyad_call.extracted.called
  /\ ~json_loads(dyad_call.http.text).ok
  /\ Len(re_findall(dyad_call.http.text, 1)) = 2
  /\ json_loads(re_findall(dyad_call.http.text, 1)[1]).ok
  /\ ~HasExpectedShape(json_loads(re_findall(dyad_call.http.text, 1)[1]).val)
  /\ dyad_call.extracted.val # JNull
  /\ dyad_call.extracted.val = json_loads(re_findall(dyad_call.http.text, 1)[2]).val

\* C6: without DYAD_API_KEY the call returns None and no request is sent; a request
\* is sent only when the key is present.
C6_KeyGatesRequest ==
  /\ dyad_api_key \in {"None", ""} =>
       /\ dyad_requests = 0
       /\ dyad_call.done =>
            (dyad_call.data = JNull /\ dyad_call.raised = "" /\ ~dyad_call.requested)
  /\ (dyad_requests > 0 \/ dyad_call.requested) => dyad_api_key \notin {"None", ""}

\* the call was made with the key set to the empty string
C6_Witness ==
  /\ dyad_call.done
  /\ dyad_api_key = ""
  /\ dyad_call.data = JNull
  /\ dyad_requests = 0

\* ------------------------------------------------ specification: the handlers
\* the key products are created with, and one no product ever has
ProductKeys == {"limao"}
UnknownKey == "desconhecido"
RequestKeys == ProductKeys \cup {UnknownKey}

\* two codes with a static profile (12 and 5 historical rejections) and one without
CreateNcms == {"08055000", "12019000", NoProfileNcm}

\* the counts a calculate_risk request carries
RequestCounts6 == 0 .. MaxRequest6
RequestCounts12 == {0, RequestCount12}

\* a record naming a substance by a number
NumberedSubstanceText ==
  << LBrace, Key("lmr_data"), LBracket, LBrace, Key("substance"), NumTok(5), Comma,
     Key("eu_limit_mg_kg"), NumTok(1), RBrace, RBracket, RBrace >>

\* a record whose limit is no numeral
WordedLimitText ==
  << LBrace, Key("lmr_data"), LBracket, LBrace, Key("substance"), StrTok("a"), Comma,
     Key("eu_limit_mg_kg"), StrTok("a"), RBrace, RBracket, RBrace >>

\* a record whose 6-month count is null
NullCountText ==
  << LBrace, Key("rasff_alerts"), LBrace, Key("last_6_months"), NullTok, RBrace, RBrace >>

\* a record listing the same substance twice
DuplicateSubstanceText ==
  << LBrace, Key("lmr_data"), LBracket, LBrace, Key("substance"), StrTok("a"), Comma,
     Key("eu_limit_mg_kg"), NumTok(1), RBrace, Comma, LBrace, Key("substance"),
     StrTok("a"), Comma, Key("eu_limit_mg_kg"), NumTok(2), RBrace, RBracket, RBrace >>

\* a record of eleven items: one with an empty substance name, one without a limit
\* ("b"), eight complete ones ("c" to "j") and, in eleventh place, a complete one ("k")
ElevenItemsText ==
  LET Item(substance) == << LBrace, Key("substance"), StrTok(substance), Comma,
                            Key("eu_limit_mg_kg"), NumTok(1), RBrace, Comma >>
  IN << LBrace, Key("lmr_data"), LBracket >>
       \o Item("")
       \o << LBrace, Key("substance"), StrTok("b"), RBrace, Comma >>
       \o Item("c") \o Item("d") \o Item("e") \o Item("f") \o Item("g") \o Item("h")
       \o Item("i") \o Item("j")
       \o << LBrace, Key("substance"), StrTok("k"), Comma, Key("eu_limit_mg_kg"),
              NumTok(1), RBrace, RBracket, RBrace >>

\* the response texts the exports receive: complete records, records with odd
\* values, a repeated substance or more than ten items, an object without the
\* expected keys, prose
ExportTexts ==
  { RecordText, NumberedSubstanceText, WordedLimitText, NullCountText,
    DuplicateSubstanceText, ElevenItemsText,
    << LBrace, Key("other"), NumTok(1), RBrace >>,
    << Prose >> }

ExportAnswers ==
  {Http("timeout", 0, "none", << >>), Http("response", 500, "invalid_json", << >>)}
  \cup {Http("response", 200, "output_text", text) : text \in ExportTexts}

Init ==
  /\ dyad_api_key \in ApiKeys
  /\ db_dialect \in Dialects
  /\ DyadIdle
  /\ CalcIdle
  /\ DbIdle

\* the handler returned out
ProductCreated(out) ==
  /\ products' = out.product_rows
  /\ background_tasks' = out.tasks
  /\ response' = out.response
  /\ UNCHANGED << calcVars, dyadVars, db_dialect, lmr_data, risk_assessments, users >>

CreateProduct(product_data) ==
  ProductCreated(create_product(products, background_tasks, product_data))

\* the handler returned out
RiskExported(out) ==
  /\ dyad_requests + (IF out.requested THEN 1 ELSE 0) <= MaxRequests
  /\ dyad_requests' = dyad_requests + (IF out.requested THEN 1 ELSE 0)
  /\ lmr_data' = out.lmr_rows
  /\ response' = out.response
  /\ UNCHANGED << calcVars, dyad_api_key, dyad_call, db_dialect, products,
                  risk_assessments, users, background_tasks >>

\* GET /api/products/{product_key}/export-pdf; http is what the Dyad API gives if asked
ExportRiskPdf(product_key, http) ==
  RiskExported(export_risk_pdf(db_dialect, dyad_api_key, products, lmr_data,
                               risk_assessments, product_key, http))

\* the handler returned out
RiskCalculated(out) ==
  /\ Len(out.assessments) <= MaxAssessments
  /\ risk_assessments' = out.assessments
  /\ response' = out.response
  /\ UNCHANGED << calcVars, dyadVars, db_dialect, products, lmr_data, users,
                  background_tasks >>

\* POST /api/risk/calculate; commit is how the db.commit() of the save ends
CalculateRisk(product_key, rasff_alerts_6m, rasff_alerts_12m, commit) ==
  RiskCalculated(calculate_risk(commit, products, risk_assessments, product_key,
                                rasff_alerts_6m, rasff_alerts_12m))

CreateProductRequest ==
  \E key \in ProductKeys, ncm_code \in CreateNcms,
     fields \in {"complete", "missing_field", "invalid_enum", "invalid_ranges"} :
    CreateProduct(ProductData(key, ncm_code, fields))

ExportRiskPdfRequest ==
  \E product_key \in RequestKeys, http \in ExportAnswers : ExportRiskPdf(product_key, http)

CalculateRiskRequest ==
  \E product_key \in RequestKeys, a6 \in RequestCounts6, a12 \in RequestCounts12,
     commit \in CommitOutcomes :
    CalculateRisk(product_key, a6, a12, commit)

Next == CreateProductRequest \/ ExportRiskPdfRequest \/ CalculateRiskRequest

Spec == Init /\ [][Next]_vars

\* C1: for a product that exists, a failed Dyad lookup is never surfaced by
\* export_risk_pdf: when search_compliance_data gave no data, or an exception was
\* raised while the Dyad data was fetched or processed, the request advances to the
\* stored-assessment fallback and answers with the report, not with an error.
C1_FailedLookupNeverSurfaced ==
  ( /\ response.op = "export_risk_pdf"
    /\ FindProduct(products, response.product_key) # NoProduct
    /\ response.lookup \in {"no_data", "raised"} ) =>
      /\ response.status_code = 200
      /\ response.data_source = "database_fallback"

\* C5: export_risk_pdf and calculate_risk return a result, never "not found" or
\* another error, for every product key, one never seen before included.
C5_UnknownKeyGetsResult ==
  ( /\ response.op \in {"export_risk_pdf", "calculate_risk"}
    /\ FindProduct(products, response.product_key) = NoProduct ) =>
      response.status_code = 200

\* C10: for a fixed product and a fixed request rasff_alerts_12m, a calculate_risk
\* request with a larger rasff_alerts_6m never receives a better score or status than
\* one with a smaller rasff_alerts_6m, the step from 0 to 1 included; stated for every
\* two consecutive answers, in either order.
C10_EndpointMonotone ==
  [][LET StatusRank(status) ==
           CASE status = "green" -> 2 [] status = "yellow" -> 1 [] OTHER -> 0
         NotSaferWithMoreAlerts(a, b) ==
           ( /\ a.op = "calculate_risk" /\ b.op = "calculate_risk"
             /\ a.status_code = 200 /\ b.status_code = 200
             /\ a.product_key = b.product_key
             /\ a.rasff_alerts_12m = b.rasff_alerts_12m
             /\ a.rasff_alerts_6m <= b.rasff_alerts_6m ) =>
               /\ b.result.score <= a.result.score
               /\ StatusRank(b.result.status) <= StatusRank(a.result.status)
     IN NotSaferWithMoreAlerts(response, response')
          /\ NotSaferWithMoreAlerts(response', response)]_vars

\* C11: the penalty stored with a risk assessment is greater than zero if and only if
\* at least two of its component scores cross the critical threshold (below 30 points
\* on the calculator's scale, where a higher score is safer and green starts at 80);
\* with fewer than two critical components the penalty is zero.
C11_PenaltyIffTwoCritical ==
  \A i \in DOMAIN risk_assessments :
    LET a == risk_assessments[i]
        critical == {c \in {"rasff_score", "lmr_score", "phyto_score", "logistic_score"} :
                       a[c] < 30}
    IN (a.penalty > 0) <=> (Cardinality(critical) >= 2)

\* C12: in every scoring call the sanitary component is the profile's base minus
\* min(5 * rasff_6m, 20) when rasff_6m > 0 and minus min(3 * (rasff_12m - 5), 15) when
\* rasff_12m > 5; the total deduction is never negative and never more than 35; the
\* other three components equal the profile's base values.
C12_SanitaryDeductions ==
  \A i \in DOMAIN calc_calls :
    LET c == calc_calls[i].out.components
        base == IF calc_ncm \in DOMAIN NCM_RISK_PROFILES THEN NCM_RISK_PROFILES[calc_ncm]
                ELSE DefaultProfile
        a6 == calc_calls[i].rasff_6m
        six == IF a6 <= 0 THEN 0 ELSE IF 5 * a6 < 20 THEN 5 * a6 ELSE 20
        twelve == IF calc_12m <= 5 THEN 0
                  ELSE IF 3 * (calc_12m - 5) < 15 THEN 3 * (calc_12m - 5) ELSE 15
    IN /\ c.Sanitario = base.sanitario_base - six - twelve
       /\ base.sanitario_base - c.Sanitario >= 0
       /\ base.sanitario_base - c.Sanitario <= 35
       /\ c.Fitossanitario = base.fitossanitario_base
       /\ c.Logistico = base.logistico_base
       /\ c.Documental = base.documental_base

\* a product with a profile scored with both deductions below their caps (3 alerts in
\* 6 months, 7 in 12 months: 15 + 6), then with the 6-month deduction at its cap (20 + 6)
C12_Witness ==
  /\ Len(calc_calls) = 2
  /\ calc_ncm = "02023000"
  /\ calc_12m = 7
  /\ calc_calls[1].rasff_6m = 3
  /\ calc_calls[1].out.components.Sanitario = 72 - 21
  /\ calc_calls[2].rasff_6m = LargeCount
  /\ calc_calls[2].out.components.Sanitario = 72 - 26

\* C13: the final score of every scoring call is the weighted sum of the four
\* components of its result, with weights 0.35 (sanitary), 0.30 (phytosanitary), 0.20
\* (logistic) and 0.15 (documentary); the components are those left after the alert
\* deductions.  Scores are in hundredths.
C13_WeightedSum ==
  \A i \in DOMAIN calc_calls :
    LET r == calc_calls[i].out
    IN r.score = 35 * r.components.Sanitario + 30 * r.components.Fitossanitario
                   + 20 * r.components.Logistico + 15 * r.components.Documental

\* a product scored without alerts and then with two alerts in 6 months: the second
\* score is lower by 0.35 * 10
C13_Witness ==
  /\ Len(calc_calls) = 2
  /\ calc_12m = 0
  /\ calc_calls[1].rasff_6m = 0
  /\ calc_calls[2].rasff_6m = 2
  /\ calc_calls[2].out.components.Sanitario = calc_calls[1].out.components.Sanitario - 10
  /\ calc_calls[2].out.score = calc_calls[1].out.score - 350

C15_HighRiskScenario ==
  \A i \in DOMAIN calc_calls :
    (calc_calls[i].rasff_6m = HighRiskAlerts6m /\ calc_12m = HighRiskAlerts12m) =>
      /\ calc_calls[i].out.score > 7000
      /\ calc_calls[i].out.status = "red"
      /\ AssessmentRow(1, calc_calls[i].out).penalty > 0

\* C16: the low-risk scenario (an ambient product with a 365-day shelf life and a 30-day
\* transit, zero alerts in both windows) is scored below 30, with status green.
C16_LowRiskScenario ==
  \A i \in DOMAIN calc_calls :
    (calc_calls[i].rasff_6m = 0 /\ calc_12m = 0) =>
      /\ calc_calls[i].out.score < 3000
      /\ calc_calls[i].out.status = "green"

\* C17: a product specification with invalid numeric ranges (a negative shelf life, a
\* negative transport time, a minimum temperature above the maximum) is rejected when
\* it is posted: create_product answers with an error and stores no product, so that
\* nothing is ever scored for it.
C17_InvalidSpecRejected ==
  [][(response'.op = "create_product" /\ response'.posted = "invalid_ranges") =>
       (response'.detail = "error" /\ products' = products)]_vars

\* ------------------------------------------- specification: users and login
AuthEmails == {"ana@zoi.com", "ana@ZOI.com", "bob@zoi.com", "ana"}

CreateUserRequest ==
  \E email \in AuthEmails, password \in {"pass123", "outra"}, salt \in {"s1", "s2"} :
    /\ users' = create_user(users, email, password, salt).users
    /\ response' = create_user(users, email, password, salt).response
    /\ UNCHANGED << calcVars, dyadVars, db_dialect, products, lmr_data, risk_assessments,
                    background_tasks >>

LoginRequest ==
  \E username \in AuthEmails, password \in {"pass123", "outra"} :
    /\ response' = login(users, username, password)
    /\ UNCHANGED << calcVars, dyadVars, dbVars >>

NextAuth == CreateUserRequest \/ LoginRequest

SpecAuth == Init /\ [][NextAuth]_vars

\* C18: login issues a bearer token if and only if a user with the e-mail posted
\* exists and the password posted matches the stored hash, and otherwise answers 401
\* with no token; and a login that follows a successful create_user with the same
\* e-mail and password succeeds.
C18_LoginIffCredentials ==
  [][/\ response'.op = "login" =>
          LET known == \E i \in DOMAIN users' :
                         /\ users'[i].email = response'.username
                         /\ users'[i].hashed_password.checksum
                              = << users'[i].hashed_password.salt, response'.password >>
          IN /\ known => (response'.status_code = 200 /\ response'.access_token # "")
             /\ ~known => (response'.status_code = 401 /\ response'.access_token = "")
     /\ ( /\ response.op = "create_user" /\ response.status_code = 201
          /\ response'.op = "login"
          /\ response'.username = response.username
          /\ response'.password = response.password ) =>
            response'.status_code = 200]_vars

\* C19: resolved compliance data is cached: when an export has obtained the data of a
\* product from the Dyad API, the next export of the same product (served at once, so
\* within any time-to-live) returns the same result, differing at most in its
\* provenance tag, and sends no further request to the Dyad API.
C19_SecondResolutionCached ==
  [][( /\ response.op = "export_risk_pdf" /\ response.status_code = 200
       /\ response.data_source = "dyad_ai"
       /\ response'.op = "export_risk_pdf"
       /\ response'.product_key = response.product_key ) =>
         /\ dyad_requests' = dyad_requests
         /\ response'.status_code = 200
         /\ response'.result = response.result]_vars

\* C20: in every reachable state the lmr_data table holds at most one row for each
\* pair of product and substance, whatever the exports stored, a Dyad response that
\* lists the same substance more than once included.
C20_OneRowPerSubstance ==
  \A i, j \in DOMAIN lmr_data :
    ( /\ lmr_data[i].product_id = lmr_data[j].product_id
      /\ lmr_data[i].substance = lmr_data[j].substance ) => i = j

\* C21: when the Dyad lookup of an export yields no usable data (nothing was returned,
\* or the data could not be processed), export_risk_pdf scores the product with the
\* alert counts of the product's most recent stored assessment, and with 0 and 0 when
\* the product has none; so an export that follows a saved calculate_risk uses exactly
\* the counts that call stored.
C21_FallbackUsesLatestCounts ==
  ( /\ response.op = "export_risk_pdf"
    /\ response.lookup \in {"no_data", "raised"}
    /\ \E p \in DOMAIN products : products[p].key = response.product_key ) =>
      LET product_id == CHOOSE p \in DOMAIN products :
                          products[p].key = response.product_key
          stored == {i \in DOMAIN risk_assessments :
                       risk_assessments[i].product_id = products[product_id].id}
          latest == CHOOSE i \in stored : \A j \in stored : j <= i
      IN /\ response.status_code = 200
         /\ response.result.alerts.rasff_6m =
              (IF stored = {} THEN 0 ELSE risk_assessments[latest].rasff_alerts_6m)
         /\ response.result.alerts.rasff_12m =
              (IF stored = {} THEN 0 ELSE risk_assessments[latest].rasff_alerts_12m)

\* C22: the provenance tag of an export is 'dyad_ai' if and only if the Dyad lookup
\* returned data and processing it raised no exception; the counts scored are then the
\* Dyad values (last_6_months 1 and last_12_months 2 in RecordText, absent and so 0 in
\* the other texts), whatever assessments are stored.  In every other case the tag is
\* 'database_fallback'.
C22_ProvenanceTag ==
  ( /\ response.op = "export_risk_pdf"
    /\ \E p \in DOMAIN products : products[p].key = response.product_key ) =>
      /\ (response.data_source = "dyad_ai") <=> (response.lookup = "data")
      /\ response.lookup # "data" => response.data_source = "database_fallback"
      /\ response.lookup = "data" =>
           << response.result.alerts.rasff_6m, response.result.alerts.rasff_12m >>
             \in {<< 1, 2 >>, << 0, 0 >>}

\* C23: calculate_risk replaces the requested alert counts by estimates only when both
\* are 0 and the product's classification code has a static profile: the 12-month count
\* is then the profile's historical_rejections and the 6-month count is half of it,
\* rounded down.  Otherwise the requested counts are used unchanged.  The alert counts
\* in the response are the counts used.
C23_EstimatesOnlyForZeroCounts ==
  ( /\ response.op = "calculate_risk" /\ response.status_code = 200 ) =>
      LET ncm_code == products[CHOOSE p \in DOMAIN products :
                                 products[p].key = response.product_key].ncm_code
          rejections == NCM_RISK_PROFILES[ncm_code].historical_rejections
          used == response.result.alerts
      IN IF /\ response.rasff_alerts_6m = 0 /\ response.rasff_alerts_12m = 0
            /\ ncm_code \in DOMAIN NCM_RISK_PROFILES
         THEN /\ used.rasff_12m = rejections
              /\ 2 * used.rasff_6m <= rejections
              /\ rejections < 2 * used.rasff_6m + 2
         ELSE /\ used.rasff_6m = response.rasff_alerts_6m
              /\ used.rasff_12m = response.rasff_alerts_12m

\* a product whose profile has 5 historical rejections was assessed with 0 and 0
\* requested: 2 and 5 were used; an earlier assessment of it, requested with a non-zero
\* count, kept its counts
C23_Witness ==
  /\ response.op = "calculate_risk" /\ response.status_code = 200
  /\ response.rasff_alerts_6m = 0 /\ response.rasff_alerts_12m = 0
  /\ response.result.alerts.rasff_6m = 2
  /\ response.result.alerts.rasff_12m = 5
  /\ Len(risk_assessments) = 2
  /\ risk_assessments[1].rasff_alerts_6m = 0
  /\ risk_assessments[1].rasff_alerts_12m = RequestCount12

\* C24: the stored assessments grow by exactly one row with each calculate_risk on an
\* existing product whose save succeeds; the row records the counts used, the component
\* values (sanitary, phytosanitary for both lmr_score and phyto_score, logistic) and
\* penalty = 100 - score.  Every other operation leaves the rows unchanged: an export, a
\* calculate_risk on an unknown product, and a calculate_risk whose save fails, which
\* still returns its result.
C24_AssessmentRowsFrame ==
  [][/\ response'.op # "calculate_risk" => risk_assessments' = risk_assessments
     /\ response'.op = "calculate_risk" =>
          LET r == response'.result
              known == \E p \in DOMAIN products' : products'[p].key = response'.product_key
          IN /\ known => response'.status_code = 200
             /\ ~known => risk_assessments' = risk_assessments
             /\ \/ risk_assessments' = risk_assessments
                \/ /\ response'.status_code = 200
                   /\ Len(risk_assessments') = Len(risk_assessments) + 1
                   /\ SubSeq(risk_assessments', 1, Len(risk_assessments)) = risk_assessments
                   /\ LET row == risk_assessments'[Len(risk_assessments')]
                      IN /\ row.rasff_alerts_6m = r.alerts.rasff_6m
                         /\ row.rasff_alerts_12m = r.alerts.rasff_12m
                         /\ row.final_score = r.score
                         /\ row.penalty = 10000 - r.score
                         /\ row.rasff_score = r.components.Sanitario
                         /\ row.lmr_score = r.components.Fitossanitario
                         /\ row.phyto_score = r.components.Fitossanitario
                         /\ row.logistic_score = r.components.Logistico]_vars

\* C25: an export that stores Dyad residue limits considers only the first 10 items
\* of lmr_data (the eleventh, "k", is never stored), skips every item with an empty
\* substance name or without a limit ("b"), inserts a row only for a substance the
\* product has no row for, and never modifies or deletes an existing row: the limit
\* stored first is kept.
C25_LmrStorageRules ==
  [][/\ Len(lmr_data') >= Len(lmr_data)
     /\ SubSeq(lmr_data', 1, Len(lmr_data)) = lmr_data
     /\ Len(lmr_data') <= Len(lmr_data) + MaxLmrItems
     /\ \A i \in DOMAIN lmr_data' :
          /\ lmr_data'[i].substance \notin {"", "b", "k"}
          /\ i > Len(lmr_data) =>
               \A j \in DOMAIN lmr_data' :
                 ( /\ j # i
                   /\ lmr_data'[j].product_id = lmr_data'[i].product_id ) =>
                     lmr_data'[j].substance # lmr_data'[i].substance]_vars

\* C26: scoring covers every classification code: for a code without a static profile
\* calculate returns a result computed from the default profile (the four base
\* components 85, no historical rejections), so that with zero alerts the score is 85
\* and the status green.
C26_DefaultProfile ==
  \A i \in DOMAIN calc_calls :
    calc_ncm \notin DOMAIN NCM_RISK_PROFILES =>
      LET r == calc_calls[i].out
      IN /\ r.components.Fitossanitario = 85
         /\ r.components.Logistico = 85
         /\ r.components.Documental = 85
         /\ r.components.Sanitario <= 85
         /\ r.alerts.historical_rejections = 0
         /\ (calc_calls[i].rasff_6m = 0 /\ calc_12m = 0) =>
              /\ r.components.Sanitario = 85
              /\ r.score = 8500
              /\ r.status = "green"
              /\ r.recommendations = << >>

\* a product whose code has no profile was scored with zero alerts and then with alerts
C26_Witness ==
  /\ calc_ncm = NoProfileNcm
  /\ calc_12m = 0
  /\ Len(calc_calls) = 2
  /\ calc_calls[1].rasff_6m = 0
  /\ calc_calls[1].out.score = 8500
  /\ calc_calls[2].rasff_6m = 1
  /\ calc_calls[2].out.score = 8325

\* C27: create_product is all-or-nothing.  A request answered success added exactly one
\* product, with the key posted, and scheduled exactly one audit, for that key.  A
\* request with a key already stored, a missing required field or an invalid direction
\* or state is answered error; a request answered error added no product, scheduled no
\* audit and left the stored products as they were.  Product keys stay unique.
C27_CreateAllOrNothing ==
  [][response'.op = "create_product" =>
       /\ response'.detail \in {"success", "error"}
       /\ response'.detail = "success" =>
            /\ Len(products') = Len(products) + 1
            /\ SubSeq(products', 1, Len(products)) = products
            /\ products'[Len(products')].key = response'.product_key
            /\ background_tasks' = Append(background_tasks, response'.product_key)
       /\ response'.detail = "error" =>
            /\ products' = products
            /\ background_tasks' = background_tasks
       /\ ( \/ response'.posted \in {"missing_field", "invalid_enum"}
            \/ \E p \in DOMAIN products : products[p].key = response'.product_key ) =>
              response'.detail = "error"
       /\ \A p, q \in DOMAIN products' :
            products'[p].key = products'[q].key => p = q]_vars

\* a product is stored with its audit scheduled, and a second request with the same
\* key and complete data was answered error
C27_Witness ==
  /\ Len(products) = 1
  /\ background_tasks = << products[1].key >>
  /\ response.op = "create_product"
  /\ response.product_key = products[1].key
  /\ response.posted = "complete"
  /\ response.detail = "error"

\* ------------------------------------------- delete_product and the background audit
\* session.delete(product); session.commit().  risk_assessments and lmr_data are
\* relationships without a delete cascade: the flush sets product_id of the rows of
\* the product to NULL, the column is nullable=False, and the IntegrityError leaves
\* the handler, which has no except clause
delete_product(product_rows, lmr_rows, assessment_rows, product_key) ==
  LET product == FindProduct(product_rows, product_key) IN
  IF product = NoProduct
  THEN [response |-> Response("delete_product", product_key, 0, 0, 200, "error", NoResult,
                              "", "", ""),
        product_rows |-> product_rows]
  ELSE IF \/ \E i \in DOMAIN lmr_rows : lmr_rows[i].product_id = product.id
          \/ HasAssessment(assessment_rows, product.id)
  THEN [response |-> ServerError("delete_product", product_key, 0, 0, "IntegrityError", ""),
        product_rows |-> product_rows]
  ELSE [response |-> Response("delete_product", product_key, 0, 0, 200, "success",
                              NoResult, "", "", ""),
        product_rows |-> SelectSeq(product_rows, LAMBDA row : row.key # product_key)]

\* the text of a link of the ANVISA page that names one of the pesticides looked for
\* ("a" is a name the Dyad records list too); LongLink is such a text of more than
\* 200 characters
LongLink == "long"
PesticideLinks == {"a", LongLink}

\* what requests.get(self.base_url, timeout=10) gave: an exception, or a status code
\* and the texts of the links of the page, in document order
ScraperPage(raised, status_code, links) ==
  [raised |-> raised, status_code |-> status_code, links |-> links]

\* AnvisaLMRScraper.search_lmr: None ("") on an exception, on a status other than 200
\* and when no link names a pesticide, else the text of the first link that does.  The
\* term it is given takes no part in the search.
search_lmr(page) ==
  IF page.raised \/ page.status_code # 200 THEN ""
  ELSE IF \E i \in DOMAIN page.links : page.links[i] \in PesticideLinks
  THEN page.links[CHOOSE i \in DOMAIN page.links :
                    /\ page.links[i] \in PesticideLinks
                    /\ \A j \in 1 .. (i - 1) : page.links[j] \notin PesticideLinks]
  ELSE ""

\* [product_name, product_name.split()[0] if ' ' in product_name else None] without
\* the None; a name is held as the sequence of its words
SearchTerms(product_name) ==
  IF Len(product_name) > 1 THEN << product_name, << product_name[1] >> >>
  ELSE << product_name >>

\* the outcome of one run of the audit: the number of search terms, the number of
\* searches made, the result acted on ("" when none), the exception the except clause
\* printed ("" when none) and whether an exception left the function (except
\* Exception catches the DataError of the driver)
AuditRun(product_key, terms, searches, results, exc, lmr_rows) ==
  [op |-> "run_initial_scraping", product_key |-> product_key, terms |-> terms,
   searches |-> searches, results |-> results, exception |-> exc,
   raised |-> exc \notin {"", "DataError"}, lmr_rows |-> lmr_rows]

\* the same body without the lookup of a stored row for the substance
AuditSavedUnchecked(dialect, product_rows, lmr_rows, product_key, terms, searches, results) ==
  LET product == FindProduct(product_rows, product_key) IN
  IF product = NoProduct
  THEN AuditRun(product_key, terms, searches, results, "", lmr_rows)
  ELSE AuditRun(product_key, terms, searches, results, "",
                Append(lmr_rows, [product_id |-> product.id, substance |-> results,
                                  dest_lmr |-> 0, source_authority |-> "ANVISA"]))

\* the body of "if results:": the product is looked up by key and, when it is stored
\* and has no row for the substance, a row is added and committed.  substance is
\* String(200): PostgreSQL refuses a longer text, and the DataError is caught by the
\* except clause of the function.  dest_lmr is held in whole mg/kg (0.1 as 0).
AuditSaved(dialect, product_rows, lmr_rows, product_key, terms, searches, results) ==
  LET product == FindProduct(product_rows, product_key) IN
  IF product = NoProduct \/ HasLmrRow(lmr_rows, product.id, JStr(results))
  THEN AuditRun(product_key, terms, searches, results, "", lmr_rows)
  ELSE IF dialect = "postgresql" /\ results = LongLink
  THEN AuditRun(product_key, terms, searches, results, "DataError", lmr_rows)
  ELSE AuditRun(product_key, terms, searches, results, "",
                Append(lmr_rows, [product_id |-> product.id, substance |-> results,
                                  dest_lmr |-> 0, source_authority |-> "ANVISA"]))

\* for term in search_terms: results = scraper.search_lmr(term); if results: ...; break
\* pages[i] is what the site answers to the i-th request made
run_initial_scraping(dialect, product_rows, lmr_rows, product_name, product_key, pages) ==
  LET terms == Len(SearchTerms(product_name)) IN
  IF search_lmr(pages[1]) # ""
  THEN AuditSaved(dialect, product_rows, lmr_rows, product_key, terms, 1,
                  search_lmr(pages[1]))
  ELSE IF terms > 1 /\ search_lmr(pages[2]) # ""
  THEN AuditSaved(dialect, product_rows, lmr_rows, product_key, terms, 2,
                  search_lmr(pages[2]))
  ELSE AuditRun(product_key, terms, terms, "", "", lmr_rows)

\* ------------------------------------- specification: products and their audits
\* audits scheduled and not yet run
MaxTasks == 2

\* the names a product is created with: one word, two words
ProductNames == { << "Limao" >>, << "Limao", "Siciliano" >> }

ScraperPages ==
  { ScraperPage(TRUE, 0, << >>), ScraperPage(FALSE, 503, << >>),
    ScraperPage(FALSE, 200, << "menu" >>), ScraperPage(FALSE, 200, << "menu", "a" >>),
    ScraperPage(FALSE, 200, << LongLink, "a" >>) }

\* the handler returned out
ProductDeleted(out) ==
  /\ products' = out.product_rows
  /\ response' = out.response
  /\ UNCHANGED << calcVars, dyadVars, db_dialect, lmr_data, risk_assessments, users,
                  background_tasks >>

DeleteProductRequest ==
  \E product_key \in RequestKeys :
    ProductDeleted(delete_product(products, lmr_data, risk_assessments, product_key))

\* the task ran to its end with run
AuditRan(run) ==
  /\ lmr_data' = run.lmr_rows
  /\ background_tasks' = Tail(background_tasks)
  /\ response' = run
  /\ UNCHANGED << calcVars, dyadVars, db_dialect, products, risk_assessments, users >>

\* the oldest scheduled audit runs; name_pt of the product it was scheduled for is
\* any of the names
RunAuditTask ==
  /\ background_tasks # << >>
  /\ \E product_name \in ProductNames, first \in ScraperPages, second \in ScraperPages :
       AuditRan(run_initial_scraping(db_dialect, products, lmr_data, product_name,
                                     Head(background_tasks), << first, second >>))

ScheduledCreateProductRequest ==
  /\ Len(background_tasks) < MaxTasks
  /\ CreateProductRequest

NextAudit ==
  \/ ScheduledCreateProductRequest
  \/ DeleteProductRequest
  \/ ExportRiskPdfRequest
  \/ RunAuditTask

SpecAudit == Init /\ [][NextAudit]_vars

====
